---- MODULE Spec2Model ----
(***************************************************************************)
(* A model of the "guess the movie" backend: infer.py (session registry,   *)
(* defensive JSON decode, fact extraction, the two external completion     *)
(* calls) and api.py (the /ask and /hint handlers).                        *)
(*                                                                         *)
(* Python values are tagged records:                                       *)
(*   None   [t |-> "none"]                                                 *)
(*   str    [t |-> "str",  s |-> <<characters>>]                           *)
(*   int    [t |-> "num",  n |-> 0..]                                      *)
(*   bool   [t |-> "bool", b |-> BOOLEAN]                                  *)
(*   list   [t |-> "list", l |-> <<values>>]                               *)
(*   dict   [t |-> "dict", d |-> [keys (character sequences) -> values]]   *)
(* A Python string is a sequence of one-character strings.  A call that    *)
(* may raise returns [raised |-> TRUE, exc |-> name] or                    *)
(* [raised |-> FALSE, val |-> value].                                      *)
(***************************************************************************)
EXTENDS Integers, Sequences, FiniteSets, TLC

VARIABLES
    combined_df,     \* infer.py:60  the candidate pool (a sequence of rows)
    session_movies,  \* infer.py:65  {session_id: movie_dict}
    pc,              \* where the event loop is: "idle", "ask_call", "hint_call"
    cur,             \* the locals of the handler that is in the external call
    req,             \* the request the event loop took last
    resp,            \* the response it sent last
    nuuid,           \* uuid4 values generated so far
    tpc, tsid, tsel, tret,   \* threads inside get_or_create_movie
    arg, ret         \* argument and result of a pure function under check

vars == <<combined_df, session_movies, pc, cur, req, resp, nuuid,
          tpc, tsid, tsel, tret, arg, ret>>

serverVars == <<pc, cur, req, resp, nuuid>>
threadVars == <<tpc, tsid, tsel, tret>>
pureVars == <<arg, ret>>

----------------------------------------------------------------------------
(* Bounds of the model.                                                    *)

MaxJsonLen == 3      \* longest enumerated text handed to _safe_load_json
MaxOdd == 2          \* fields of a record that deviate from a well-formed row
MaxUuid == 1         \* uuid4 values drawn
NThreads == 2        \* threads calling get_or_create_movie at once

----------------------------------------------------------------------------
(* Python values.                                                          *)

None == [t |-> "none"]
PyStr(s) == [t |-> "str", s |-> s]
PyNum(n) == [t |-> "num", n |-> n]
PyBool(b) == [t |-> "bool", b |-> b]
PyList(l) == [t |-> "list", l |-> l]
PyDict(d) == [t |-> "dict", d |-> d]

Ok(v) == [raised |-> FALSE, val |-> v]
Raise(e) == [raised |-> TRUE, exc |-> e]

EmptyDict == [k \in {} |-> None]

\* bool(v): what `v or default` and `if v` test.
Truthy(v) ==
    CASE v.t = "none" -> FALSE
      [] v.t = "str"  -> v.s # <<>>
      [] v.t = "num"  -> v.n # 0
      [] v.t = "bool" -> v.b
      [] v.t = "list" -> v.l # <<>>
      [] v.t = "dict" -> DOMAIN v.d # {}

\* `a or b`
PyOr(a, b) == IF Truthy(a) THEN a ELSE b

\* dict.get(key) on a parsed dict (keys are character sequences).
DictGet(v, key) == IF key \in DOMAIN v.d THEN v.d[key] ELSE None

\* movie.get(field) on a row of the pool (a function of the columns present).
MovieGet(movie, field) == IF field \in DOMAIN movie THEN movie[field] ELSE None

----------------------------------------------------------------------------
(* Strings.                                                                *)

\* The characters str.strip() removes, among those the inputs are built from.
Whitespace == {" ", "\t", "\n", "\r"}

RECURSIVE LStrip(_)
LStrip(s) == IF s # <<>> /\ Head(s) \in Whitespace THEN LStrip(Tail(s)) ELSE s

RECURSIVE RStrip(_)
RStrip(s) ==
    IF s # <<>> /\ s[Len(s)] \in Whitespace
    THEN RStrip(SubSeq(s, 1, Len(s) - 1))
    ELSE s

\* str.strip()
Strip(s) == RStrip(LStrip(s))

Upper == <<"A", "B", "C", "D", "E", "F", "G", "H", "I", "J", "K", "L", "M",
           "N", "O", "P", "Q", "R", "S", "T", "U", "V", "W", "X", "Y", "Z">>
LowerOf == <<"a", "b", "c", "d", "e", "f", "g", "h", "i", "j", "k", "l", "m",
             "n", "o", "p", "q", "r", "s", "t", "u", "v", "w", "x", "y", "z">>

LowerChar(c) ==
    IF \E i \in 1..26 : Upper[i] = c
    THEN LowerOf[CHOOSE i \in 1..26 : Upper[i] = c]
    ELSE c

\* str.lower()
Lower(s) == [i \in 1..Len(s) |-> LowerChar(s[i])]

\* str.startswith(p)
StartsWith(s, p) == Len(s) >= Len(p) /\ SubSeq(s, 1, Len(p)) = p

\* `p in s`
Contains(s, p) ==
    \E i \in 1..(Len(s) - Len(p) + 1) : SubSeq(s, i, i + Len(p) - 1) = p

RECURSIVE Join(_, _)
\* sep.join(parts), parts a sequence of strings
Join(sep, parts) ==
    IF parts = <<>> THEN <<>>
    ELSE IF Len(parts) = 1 THEN parts[1]
    ELSE parts[1] \o sep \o Join(sep, Tail(parts))

RECURSIVE SplitLines(_)
\* text.split("\n")
SplitLines(s) ==
    IF \E i \in 1..Len(s) : s[i] = "\n"
    THEN LET i == CHOOSE k \in 1..Len(s) :
                      s[k] = "\n" /\ \A j \in 1..(k - 1) : s[j] # "\n"
         IN <<SubSeq(s, 1, i - 1)>> \o SplitLines(SubSeq(s, i + 1, Len(s)))
    ELSE <<s>>

Digits == <<"0", "1", "2", "3", "4", "5", "6", "7", "8", "9">>
IsDigit(c) == \E i \in 1..10 : Digits[i] = c
DigitVal(c) == (CHOOSE i \in 1..10 : Digits[i] = c) - 1

RECURSIVE NumStr(_)
\* str(n) for n >= 0
NumStr(n) ==
    IF n < 10 THEN <<Digits[n + 1]>>
    ELSE NumStr(n \div 10) \o <<Digits[(n % 10) + 1]>>

----------------------------------------------------------------------------
(* json.loads, for texts over the characters                               *)
(*   [ ] { } , : " space newline, digits, letters                          *)
(* (no sign, fraction, exponent or backslash escape occurs in the inputs). *)

ScanFail == [ok |-> FALSE]
ScanOk(v, p) == [ok |-> TRUE, val |-> v, pos |-> p]

RECURSIVE SkipWs(_, _)
SkipWs(s, i) ==
    IF i <= Len(s) /\ s[i] \in Whitespace THEN SkipWs(s, i + 1) ELSE i

RECURSIVE ScanString(_, _, _)
\* the string that began with the quote before position `from`
ScanString(s, from, i) ==
    IF i > Len(s) THEN ScanFail                       \* unterminated
    ELSE IF s[i] = "\"" THEN ScanOk(PyStr(SubSeq(s, from, i - 1)), i + 1)
    ELSE IF s[i] \in {"\n", "\t", "\r", "\\"} THEN ScanFail  \* control char
    ELSE ScanString(s, from, i + 1)

RECURSIVE ScanDigits(_, _, _)
ScanDigits(s, i, acc) ==
    IF i <= Len(s) /\ IsDigit(s[i])
    THEN ScanDigits(s, i + 1, 10 * acc + DigitVal(s[i]))
    ELSE ScanOk(PyNum(acc), i)

ScanNumber(s, i) ==
    IF s[i] = "0" THEN ScanOk(PyNum(0), i + 1) ELSE ScanDigits(s, i, 0)

Literal(s, i, word) ==
    i + Len(word) - 1 <= Len(s) /\ SubSeq(s, i, i + Len(word) - 1) = word

RECURSIVE ScanOnce(_, _), ArrayLoop(_, _, _), ObjectLoop(_, _, _)

ScanArray(s, i) ==
    LET j == SkipWs(s, i)
    IN IF j <= Len(s) /\ s[j] = "]" THEN ScanOk(PyList(<<>>), j + 1)
       ELSE ArrayLoop(s, j, <<>>)

ArrayLoop(s, j, acc) ==
    LET r == ScanOnce(s, j)
    IN IF ~r.ok THEN ScanFail
       ELSE LET k == SkipWs(s, r.pos)
            IN IF k > Len(s) THEN ScanFail
               ELSE IF s[k] = "]"
                    THEN ScanOk(PyList(Append(acc, r.val)), k + 1)
               ELSE IF s[k] = ","
                    THEN ArrayLoop(s, SkipWs(s, k + 1), Append(acc, r.val))
               ELSE ScanFail

ScanObject(s, i) ==
    LET j == SkipWs(s, i)
    IN IF j > Len(s) THEN ScanFail
       ELSE IF s[j] = "}" THEN ScanOk(PyDict(EmptyDict), j + 1)
       ELSE IF s[j] # "\"" THEN ScanFail
       ELSE ObjectLoop(s, j + 1, EmptyDict)

\* i is the position after the opening quote of the next key
ObjectLoop(s, i, acc) ==
    LET key == ScanString(s, i, i)
    IN IF ~key.ok THEN ScanFail
       ELSE LET j == SkipWs(s, key.pos)
            IN IF j > Len(s) \/ s[j] # ":" THEN ScanFail
               ELSE LET v == ScanOnce(s, SkipWs(s, j + 1))
                    IN IF ~v.ok THEN ScanFail
                       ELSE LET k == SkipWs(s, v.pos)
                                pairs == [x \in DOMAIN acc \cup {key.val.s} |->
                                            IF x = key.val.s THEN v.val
                                            ELSE acc[x]]
                            IN IF k > Len(s) THEN ScanFail
                               ELSE IF s[k] = "}"
                                    THEN ScanOk(PyDict(pairs), k + 1)
                               ELSE IF s[k] # "," THEN ScanFail
                               ELSE LET m == SkipWs(s, k + 1)
                                    IN IF m > Len(s) \/ s[m] # "\""
                                       THEN ScanFail
                                       ELSE ObjectLoop(s, m + 1, pairs)

ScanOnce(s, i) ==
    IF i > Len(s) THEN ScanFail
    ELSE IF s[i] = "\"" THEN ScanString(s, i + 1, i + 1)
    ELSE IF s[i] = "{" THEN ScanObject(s, i + 1)
    ELSE IF s[i] = "[" THEN ScanArray(s, i + 1)
    ELSE IF Literal(s, i, <<"n", "u", "l", "l">>) THEN ScanOk(None, i + 4)
    ELSE IF Literal(s, i, <<"t", "r", "u", "e">>)
         THEN ScanOk(PyBool(TRUE), i + 4)
    ELSE IF Literal(s, i, <<"f", "a", "l", "s", "e">>)
         THEN ScanOk(PyBool(FALSE), i + 5)
    ELSE IF IsDigit(s[i]) THEN ScanNumber(s, i)
    ELSE ScanFail

\* json.loads(v): TypeError unless v is a str; JSONDecodeError on bad text
\* or on text left over after the value.
json_loads(v) ==
    IF v.t # "str" THEN Raise("TypeError")
    ELSE LET r == ScanOnce(v.s, SkipWs(v.s, 1))
         IN IF ~r.ok THEN Raise("JSONDecodeError")
            ELSE IF SkipWs(v.s, r.pos) # Len(v.s) + 1
                 THEN Raise("JSONDecodeError")
            ELSE Ok(r.val)

\* _safe_load_json without its try/except.
safe_load_json_unguarded(s) ==
    IF s.t = "none" THEN Ok(PyList(<<>>))
    ELSE IF s.t \in {"list", "dict"} THEN Ok(s)
    ELSE json_loads(s)

\* infer.py:70  _safe_load_json, the call's outcome (it has no raising path
\* left: `except Exception` takes every error json.loads raises).
_safe_load_json(s) ==
    IF s.t = "none" THEN Ok(PyList(<<>>))
    ELSE IF s.t \in {"list", "dict"} THEN Ok(s)
    ELSE LET r == json_loads(s)
         IN IF r.raised THEN Ok(PyList(<<>>)) ELSE Ok(r.val)

----------------------------------------------------------------------------
(* Fact extraction, infer.py:86-133.                                       *)

L_Overview == <<"O", "v", "e", "r", "v", "i", "e", "w", ":", " ">>
L_Release == <<"R", "e", "l", "e", "a", "s", "e", " ", "d", "a", "t", "e", ":", " ">>
L_Genres == <<"G", "e", "n", "r", "e", "s", ":", " ">>
L_Cast == <<"M", "a", "i", "n", " ", "c", "a", "s", "t", " ", "(", "t", "o", "p", " ", "b", "i", "l", "l", "e", "d", ")", ":", " ">>
L_Directors == <<"D", "i", "r", "e", "c", "t", "o", "r", "(", "s", ")", ":", " ">>
L_Runtime == <<"R", "u", "n", "t", "i", "m", "e", " ", "(", "m", "i", "n", "u", "t", "e", "s", ")", ":", " ">>
L_Rating == <<"A", "v", "e", "r", "a", "g", "e", " ", "r", "a", "t", "i", "n", "g", ":", " ">>
L_Votes == <<" ", "(", "v", "o", "t", "e", "s", ":", " ">>
L_Popularity == <<"P", "o", "p", "u", "l", "a", "r", "i", "t", "y", " ", "s", "c", "o", "r", "e", ":", " ">>
L_Language == <<"L", "a", "n", "g", "u", "a", "g", "e", ":", " ">>
NA == <<"N", "/", "A">>
CommaSpace == <<",", " ">>
kName == <<"n", "a", "m", "e">>
kJob == <<"j", "o", "b">>
sDirector == <<"d", "i", "r", "e", "c", "t", "o", "r">>

RECURSIVE SetToSeq(_)
SetToSeq(S) ==
    IF S = {} THEN <<>>
    ELSE LET x == CHOOSE y \in S : TRUE IN <<x>> \o SetToSeq(S \ {x})

\* `for x in v`: the items a comprehension walks, or TypeError when v is
\* not iterable.  A dict yields its keys, a str its characters.
Iter(v) ==
    CASE v.t = "list" -> Ok(v.l)
      [] v.t = "dict" -> LET ks == SetToSeq(DOMAIN v.d)
                         IN Ok([i \in 1..Len(ks) |-> PyStr(ks[i])])
      [] v.t = "str"  -> Ok([i \in 1..Len(v.s) |-> PyStr(<<v.s[i]>>)])
      [] OTHER        -> Raise("TypeError")

RECURSIVE NamesOf(_)
\* [x.get("name") for x in items if isinstance(x, dict)]
NamesOf(items) ==
    IF items = <<>> THEN <<>>
    ELSE IF Head(items).t = "dict"
         THEN <<DictGet(Head(items), kName)>> \o NamesOf(Tail(items))
    ELSE NamesOf(Tail(items))

RECURSIVE DirectorsOf(_)
\* [c.get("name") for c in crew if isinstance(c, dict) and c.get("job")
\*                                  and c.get("job").lower() == "director"]
DirectorsOf(items) ==
    IF items = <<>> THEN Ok(<<>>)
    ELSE LET c == Head(items)
             rest == DirectorsOf(Tail(items))
         IN IF c.t # "dict" \/ ~Truthy(DictGet(c, kJob)) THEN rest
            ELSE IF DictGet(c, kJob).t # "str" THEN Raise("AttributeError")
            ELSE IF rest.raised THEN rest
            ELSE IF Lower(DictGet(c, kJob).s) = sDirector
                 THEN Ok(<<DictGet(c, kName)>> \o rest.val)
            ELSE rest

\* ', '.join(parts): TypeError unless every part is a str.
JoinValues(parts) ==
    IF \E i \in 1..Len(parts) : parts[i].t # "str" THEN Raise("TypeError")
    ELSE Ok(Join(CommaSpace, [i \in 1..Len(parts) |-> parts[i].s]))

RECURSIVE Escaped(_)
Escaped(s) ==
    IF s = <<>> THEN <<>>
    ELSE (CASE Head(s) = "\n" -> <<"\\", "n">>
            [] Head(s) = "\t" -> <<"\\", "t">>
            [] Head(s) = "\r" -> <<"\\", "r">>
            [] Head(s) = "\\" -> <<"\\", "\\">>
            [] OTHER -> <<Head(s)>>) \o Escaped(Tail(s))

HasChar(s, c) == \E i \in 1..Len(s) : s[i] = c

RECURSIVE EscapeQuote(_)
EscapeQuote(s) ==
    IF s = <<>> THEN <<>>
    ELSE (IF Head(s) = "'" THEN <<"\\", "'">> ELSE <<Head(s)>>)
         \o EscapeQuote(Tail(s))

\* repr of a str: single quotes, double ones when it holds only single ones
ReprStr(s) ==
    IF HasChar(s, "'") /\ ~HasChar(s, "\"")
    THEN <<"\"">> \o Escaped(s) \o <<"\"">>
    ELSE <<"'">> \o EscapeQuote(Escaped(s)) \o <<"'">>

RECURSIVE PyRepr(_)
\* repr(v)
PyRepr(v) ==
    CASE v.t = "none" -> <<"N", "o", "n", "e">>
      [] v.t = "str"  -> ReprStr(v.s)
      [] v.t = "num"  -> NumStr(v.n)
      [] v.t = "bool" -> IF v.b THEN <<"T", "r", "u", "e">>
                         ELSE <<"F", "a", "l", "s", "e">>
      [] v.t = "list" ->
            <<"[">> \o Join(CommaSpace, [i \in 1..Len(v.l) |-> PyRepr(v.l[i])])
                    \o <<"]">>
      [] v.t = "dict" ->
            LET ks == SetToSeq(DOMAIN v.d)
            IN <<"{">> \o Join(CommaSpace,
                               [i \in 1..Len(ks) |->
                                  ReprStr(ks[i]) \o <<":", " ">>
                                          \o PyRepr(v.d[ks[i]])])
                       \o <<"}">>

\* what an f-string puts for {v}
PyFormat(v) == IF v.t = "str" THEN v.s ELSE PyRepr(v)

\* {v or 'N/A'}
OrNA(v) == PyFormat(PyOr(v, PyStr(NA)))

\* cast_list[:6]
TopBilled == 6
FirstN(seq, n) == SubSeq(seq, 1, IF Len(seq) < n THEN Len(seq) ELSE n)

\* The language interpolated into the instruction, line 131:
\* movie.get("language").lower()
InstructionLanguage(movie) ==
    IF MovieGet(movie, "language").t # "str" THEN Raise("AttributeError")
    ELSE Ok(Lower(MovieGet(movie, "language").s))

\* The title interpolated into the instruction, lines 123 and 130.
InstructionTitle(movie) ==
    IF MovieGet(movie, "title").t # "str" THEN Raise("AttributeError")
    ELSE Ok(Lower(MovieGet(movie, "title").s))

\* infer.py:86  the call's outcome: the exception it raises, or the pair
\* (facts_block, system_instruction); of the instruction the model keeps the
\* two interpolated parts, the rules around them being fixed text.
build_facts_and_instruction(movie) ==
    LET empty == PyStr(<<>>)
        overview == PyOr(MovieGet(movie, "overview"), empty)
        release_date == PyOr(MovieGet(movie, "release_date"), empty)
        popularity == PyOr(MovieGet(movie, "popularity"), empty)
        runtime == PyOr(MovieGet(movie, "runtime"), empty)
        vote_average == PyOr(MovieGet(movie, "vote_average"), empty)
        vote_count == PyOr(MovieGet(movie, "vote_count"), empty)
        genres_it == Iter(_safe_load_json(MovieGet(movie, "genres")).val)
        cast_it == Iter(_safe_load_json(MovieGet(movie, "cast")).val)
        crew_it == Iter(_safe_load_json(MovieGet(movie, "crew")).val)
    IN IF genres_it.raised THEN genres_it
       ELSE IF cast_it.raised THEN cast_it
       ELSE IF crew_it.raised THEN crew_it
       ELSE
       LET genres_list == NamesOf(genres_it.val)
           main_cast == FirstN(NamesOf(cast_it.val), TopBilled)
           directors == DirectorsOf(crew_it.val)
       IN IF directors.raised THEN directors
          ELSE IF overview.t # "str" THEN Raise("AttributeError")
          ELSE
          LET genres_txt == JoinValues(genres_list)
              cast_txt == JoinValues(main_cast)
              dir_txt == JoinValues(directors.val)
              title == InstructionTitle(movie)
              language == InstructionLanguage(movie)
          IN IF genres_txt.raised THEN genres_txt
             ELSE IF cast_txt.raised THEN cast_txt
             ELSE IF dir_txt.raised THEN dir_txt
             ELSE IF title.raised THEN title
             ELSE IF language.raised THEN language
             ELSE
             LET facts == <<
                   L_Overview \o OrNA(PyStr(Strip(overview.s))),
                   L_Release \o OrNA(release_date),
                   L_Genres \o (IF genres_list # <<>> THEN genres_txt.val ELSE NA),
                   L_Cast \o (IF main_cast # <<>> THEN cast_txt.val ELSE NA),
                   L_Directors \o (IF directors.val # <<>> THEN dir_txt.val ELSE NA),
                   L_Runtime \o OrNA(runtime),
                   L_Rating \o OrNA(vote_average) \o L_Votes \o OrNA(vote_count)
                            \o <<")">>,
                   L_Popularity \o OrNA(popularity),
                   L_Language \o OrNA(MovieGet(movie, "language")) >>
             IN Ok([facts_block |-> Join(<<"\n">>, facts),
                    system_instruction |-> [title |-> title.val,
                                            language |-> language.val]])

----------------------------------------------------------------------------
(* The candidate pool, infer.py:12-60: rows with the six columns of         *)
(* combined_df.  A TMDB row carries its genres as JSON text and no          *)
(* director; a Bollywood row carries a plain genre string.                  *)

GenresText == <<"[", "{", "\"", "n", "a", "m", "e", "\"", ":", "\"", "A", "\"", "}", "]">>
CastText == <<"[", "{", "\"", "n", "a", "m", "e", "\"", ":", "\"", "B", "\"", "}", "]">>
CrewText == <<"[", "{", "\"", "j", "o", "b", "\"", ":", "\"", "D", "i", "r", "e", "c", "t", "o", "r", "\"", ",", "\"", "n", "a", "m", "e", "\"", ":", "\"", "C", "\"", "}", "]">>
PlainGenres == <<"A", "c", "t", "i", "o", "n", ",", " ", "D", "r", "a", "m", "a">>
NullText == <<"n", "u", "l", "l">>
English == <<"E", "n", "g", "l", "i", "s", "h">>
Hindi == <<"H", "i", "n", "d", "i">>

TmdbRow(title, year) ==
    [title |-> PyStr(title), release_date |-> PyStr(year),
     genres |-> PyStr(GenresText), overview |-> PyStr(<<"A", " ", "b">>),
     director |-> None, language |-> PyStr(English)]

BollywoodRow(title, year) ==
    [title |-> PyStr(title), release_date |-> PyStr(year),
     genres |-> PyStr(PlainGenres), overview |-> PyStr(<<"C">>),
     director |-> PyStr(<<"D">>), language |-> PyStr(Hindi)]

Pool == << TmdbRow(<<"U", "p">>, <<"2", "0", "0", "9">>),
           BollywoodRow(<<"D", "o", "n">>, <<"2", "0", "0", "6">>) >>

----------------------------------------------------------------------------
(* Inputs of the pure functions.                                            *)

NotCalled == [called |-> FALSE]

Texts(alphabet, n) == UNION {[1..k -> alphabet] : k \in 0..n}

JsonAlphabet == {"[", "]", "{", "}", ",", ":", "\"", "1", "a", " "}

NameDict(v) == PyDict([k \in {kName} |-> v])

\* The inputs of _safe_load_json: values of every type, texts of the pool,
\* and every text of at most n characters.
JsonInputs(n) ==
    {None, PyNum(0), PyNum(5), PyBool(TRUE), PyList(<<>>),
     PyList(<<NameDict(PyStr(<<"A">>))>>), PyDict(EmptyDict),
     NameDict(PyNum(1)),
     PyStr(GenresText), PyStr(CrewText), PyStr(PlainGenres), PyStr(NullText)}
    \cup {PyStr(s) : s \in Texts(JsonAlphabet, n)}

\* A row with every field the fact sheet reads, all well formed.
WellFormed ==
    [title |-> PyStr(<<"U", "p">>), overview |-> PyStr(<<"A", " ", "b">>),
     release_date |-> PyStr(<<"2", "0", "0", "9">>),
     genres |-> PyStr(GenresText), cast |-> PyStr(CastText),
     crew |-> PyStr(CrewText), runtime |-> PyNum(96),
     vote_average |-> PyNum(7), vote_count |-> PyNum(12),
     popularity |-> PyNum(3), language |-> PyStr(English)]

\* Every field but the title may deviate.
OddFields == DOMAIN WellFormed \ {"title"}

Absent == [t |-> "absent"]

\* Absent, null, empty, malformed or of an unexpected JSON shape.
OddValues ==
    {Absent, None, PyStr(<<>>), PyStr(<<"x">>), PyStr(<<"a", "\n", "b">>),
     PyStr(<<"7">>), PyStr(NullText), PyNum(0), PyNum(7),
     PyList(<<>>), PyList(<<NameDict(PyNum(1))>>),
     PyList(<<PyDict([k \in {kJob} |-> PyNum(1)])>>),
     PyList(<<PyDict(EmptyDict)>>), PyDict(EmptyDict)}

ApplyOdd(m, o) ==
    [f \in (DOMAIN m) \ {g \in DOMAIN o : o[g] = Absent} |->
        IF f \in DOMAIN o THEN o[f] ELSE m[f]]

\* The well-formed row with at most n of its fields made odd.
MovieInputs(n) ==
    UNION { {ApplyOdd(WellFormed, o) : o \in [D -> OddValues]} :
            D \in {X \in SUBSET OddFields : Cardinality(X) <= n} }

----------------------------------------------------------------------------
(* Initial values of the parts a specification does not move.               *)

NoSessions == [s \in {} |-> None]
NoCur == [kind |-> "none"]
NoReq == [kind |-> "none"]
NoResp == [status |-> 0]
Threads == 1..NThreads

RegistryInit == combined_df = Pool /\ session_movies = NoSessions

ServerInit ==
    /\ pc = "idle" /\ cur = NoCur /\ req = NoReq /\ resp = NoResp
    /\ nuuid = 0

ThreadsInit ==
    /\ tpc = [t \in Threads |-> "idle"]
    /\ tsid = [t \in Threads |-> ""]
    /\ tsel = [t \in Threads |-> 0]
    /\ tret = [t \in Threads |-> NotCalled]

PureInit == arg = None /\ ret = NotCalled

----------------------------------------------------------------------------
(* _safe_load_json applied to one input.                                    *)

InitJson ==
    /\ RegistryInit /\ ServerInit /\ ThreadsInit
    /\ arg \in JsonInputs(MaxJsonLen)
    /\ ret = NotCalled

SafeLoadJson ==
    /\ ret = NotCalled
    /\ ret' = _safe_load_json(arg)
    /\ UNCHANGED <<arg, combined_df, session_movies, serverVars, threadVars>>

NextJson == SafeLoadJson

SpecJson == InitJson /\ [][NextJson]_vars

----------------------------------------------------------------------------
(* build_facts_and_instruction applied to one record.                       *)

InitFacts ==
    /\ RegistryInit /\ ServerInit /\ ThreadsInit
    /\ arg \in MovieInputs(MaxOdd)
    /\ ret = NotCalled

BuildFacts ==
    /\ ret = NotCalled
    /\ ret' = build_facts_and_instruction(arg)
    /\ UNCHANGED <<arg, combined_df, session_movies, serverVars, threadVars>>

NextFacts == BuildFacts

SpecFacts == InitFacts /\ [][NextFacts]_vars

----------------------------------------------------------------------------
(* The session registry, infer.py:80-84.                                    *)

Bind(sessions, session_id, movie) ==
    [s \in DOMAIN sessions \cup {session_id} |->
        IF s = session_id THEN movie ELSE sessions[s]]

\* get_or_create_movie without the membership test: it draws on every call.
get_or_create_movie_redraw(sessions, session_id, row) ==
    [sessions |-> Bind(sessions, session_id, row), movie |-> row]

\* get_or_create_movie that starts a new registry for a new session.
get_or_create_movie_evict(sessions, session_id, row) ==
    LET after == IF session_id \notin DOMAIN sessions
                 THEN [s \in {session_id} |-> row]
                 ELSE sessions
    IN [sessions |-> after, movie |-> after[session_id]]

\* get_or_create_movie that returns its draw without storing it.
get_or_create_movie_nostore(sessions, session_id, row) ==
    [sessions |-> sessions,
     movie |-> IF session_id \in DOMAIN sessions THEN sessions[session_id]
               ELSE row]

\* get_or_create_movie run without interruption: the registry it leaves and
\* the record it returns; `row` is the row combined_df.sample(n=1) draws.
get_or_create_movie(sessions, session_id, row) ==
    LET after == IF session_id \notin DOMAIN sessions
                 THEN Bind(sessions, session_id, row)
                 ELSE sessions
    IN [sessions |-> after, movie |-> after[session_id]]

----------------------------------------------------------------------------
(* The handlers of api.py on the event loop.  Both are `async def` and call *)
(* the synchronous ask_question / get_hint without awaiting anything, so   *)
(* the loop runs one handler at a time; the external completion call is    *)
(* the one place where a handler waits.                                    *)

Uuid(k) == <<"u", Digits[k + 1]>>
ClientIds == {<<"s", "1">>}

\* The X-Session-ID values a client may send: none, an empty one, an id of
\* its own, or an id an earlier response handed out.
Headers ==
    {None, PyStr(<<>>)}
    \cup {PyStr(s) : s \in ClientIds \cup {Uuid(k) : k \in 1..nuuid}}

\* Empty, whitespace-only, padded and plain questions.
Questions ==
    {<<>>, <<" ">>, <<"\n", " ", "\t">>, <<"a">>, <<" ", "a", "\n">>,
     <<"a", " ", "b">>}

A_Correct == <<"Y", "e", "s", ",", " ", "t", "h", "a", "t", " ", "i", "s", " ", "c", "o", "r", "r", "e", "c", "t", "!", " ", "T", "h", "e", " ", "m", "o", "v", "i", "e", " ", "i", "s", " ", "u", "p", ".">>
A_Wrong == <<"N", "o", ",", " ", "t", "h", "a", "t", " ", "i", "s", " ", "n", "o", "t", " ", "t", "h", "e", " ", "m", "o", "v", "i", "e", " ", "o", "r", " ", "i", "t", "s", " ", "f", "r", "a", "n", "c", "h", "i", "s", "e", ".">>
A_Yes == <<"Y", "e", "s">>
A_Shout == <<"Y", "E", "S", " ", "-", " ", "C", "O", "R", "R", "E", "C", "T">>
A_Reversed == <<"C", "o", "r", "r", "e", "c", "t", ",", " ", "y", "e", "s">>
A_Padded == <<" ", "y", "e", "s", " ", "c", "o", "r", "r", "e", "c", "t", "\n">>

\* What message.content of a completion may hold (it is Optional[str]).
Contents ==
    {None} \cup {PyStr(a) : a \in {A_Correct, A_Wrong, A_Yes, A_Shout,
                                   A_Reversed, A_Padded}}

\* What client.chat.completions.create may raise.
CallErrors == {"Request timed out.", "Connection error."}

\* The emptiness test without strip().
IsEmptyQuestion_nostrip(question) == question = <<>>

\* api.py:22  `not request.question.strip()`
IsEmptyQuestion(question) == Strip(question) = <<>>

\* api.py:25-27 / 39-41  the header's value, or a fresh uuid4
ResolveSessionId(header, fresh) == IF Truthy(header) THEN header.s ELSE fresh

\* The game-over test on the answer as returned, not lower-cased.
GameOver_cased(answer) ==
    StartsWith(answer, <<"y", "e", "s">>)
    /\ Contains(answer, <<"c", "o", "r", "r", "e", "c", "t">>)

\* api.py:31-32
GameOver(answer) ==
    LET resp_lower == Lower(answer)
    IN StartsWith(resp_lower, <<"y", "e", "s">>)
       /\ Contains(resp_lower, <<"c", "o", "r", "r", "e", "c", "t">>)

HTTPException(status_code, detail) ==
    [status |-> status_code, detail |-> detail]

\* infer.py:164 / 188  message.content.strip()
CompletionText(content) ==
    IF content.t = "str" THEN Ok(Strip(content.s))
    ELSE Raise("'NoneType' object has no attribute 'strip'")

\* A handler that answers a failure of the core with an empty success.
HandlerEnd_swallow(kind, outcome, session_id) ==
    [pc |-> "idle",
     resp |-> IF kind = "ask"
              THEN [status |-> 200,
                    answer |-> IF outcome.raised THEN <<>> ELSE outcome.val,
                    game_over |-> FALSE, session_id |-> session_id]
              ELSE [status |-> 200,
                    hint |-> IF outcome.raised THEN <<>> ELSE outcome.val,
                    session_id |-> session_id]]

\* A handler that, on a failure of the core, waits and never answers.
HandlerEnd_stuck(kind, outcome, session_id) ==
    IF outcome.raised THEN [pc |-> "stuck", resp |-> NoResp]
    ELSE [pc |-> "idle",
          resp |-> IF kind = "ask"
                   THEN [status |-> 200, answer |-> outcome.val,
                         game_over |-> FALSE, session_id |-> session_id]
                   ELSE [status |-> 200, hint |-> outcome.val,
                         session_id |-> session_id]]

\* api.py:29-35 and 43-47: how a handler ends, given what ask_question or
\* get_hint returned or raised: the response, and the loop free again.
HandlerEnd(kind, outcome, session_id) ==
    [pc |-> "idle",
     resp |-> IF outcome.raised THEN HTTPException(500, outcome.exc)
              ELSE IF kind = "ask"
                   THEN [status |-> 200, answer |-> outcome.val,
                         game_over |-> GameOver(outcome.val),
                         session_id |-> session_id]
              ELSE [status |-> 200, hint |-> outcome.val,
                    session_id |-> session_id]]

\* ask_question / get_hint up to the external call (infer.py:145-153 and
\* 167-178): resolve the session, build the facts, then either fail or
\* enter the call.
EnterCore(kind, session_id, row) ==
    \E g \in {get_or_create_movie(session_movies, session_id, row)} :
    \E built \in {build_facts_and_instruction(g.movie)} :
       /\ session_movies' = g.sessions
       /\ IF built.raised
          THEN /\ \E e \in {HandlerEnd(kind, built, session_id)} :
                    pc' = e.pc /\ resp' = e.resp
               /\ ret' = built
               /\ cur' = NoCur
          ELSE /\ pc' = IF kind = "ask" THEN "ask_call" ELSE "hint_call"
               /\ cur' = [kind |-> kind, session_id |-> session_id,
                          movie |-> g.movie]
               /\ resp' = NoResp
               /\ ret' = NotCalled

\* POST /ask, api.py:20-35, up to the response or the external call.
ask_movie_question(question, header) ==
    /\ pc = "idle"
    /\ Truthy(header) \/ nuuid < MaxUuid
    /\ req' = [kind |-> "ask", question |-> question, header |-> header]
    /\ IF IsEmptyQuestion(question)
       THEN /\ resp' = HTTPException(400, "Question must not be empty.")
            /\ ret' = NotCalled
            /\ UNCHANGED <<session_movies, pc, cur, nuuid>>
       ELSE /\ nuuid' = IF Truthy(header) THEN nuuid ELSE nuuid + 1
            /\ \E i \in 1..Len(combined_df) :
                 EnterCore("ask", ResolveSessionId(header, Uuid(nuuid + 1)),
                           combined_df[i])
    /\ UNCHANGED <<combined_df, arg, threadVars>>

\* GET /hint, api.py:37-47, up to the response or the external call.
get_movie_hint(header) ==
    /\ pc = "idle"
    /\ Truthy(header) \/ nuuid < MaxUuid
    /\ req' = [kind |-> "hint", header |-> header]
    /\ nuuid' = IF Truthy(header) THEN nuuid ELSE nuuid + 1
    /\ \E i \in 1..Len(combined_df) :
         EnterCore("hint", ResolveSessionId(header, Uuid(nuuid + 1)),
                   combined_df[i])
    /\ UNCHANGED <<combined_df, arg, threadVars>>

\* The external call returns a completion (infer.py:155-164, 179-188).
CompletionReturns(content) ==
    /\ pc \in {"ask_call", "hint_call"}
    /\ \E outcome \in {CompletionText(content)} :
       \E e \in {HandlerEnd(cur.kind, outcome, cur.session_id)} :
          pc' = e.pc /\ resp' = e.resp /\ ret' = outcome
    /\ cur' = NoCur
    /\ UNCHANGED <<combined_df, session_movies, req, nuuid, arg, threadVars>>

\* The external call raises: a timeout, a network error, an error status.
CompletionRaises(message) ==
    /\ pc \in {"ask_call", "hint_call"}
    /\ \E outcome \in {Raise(message)} :
       \E e \in {HandlerEnd(cur.kind, outcome, cur.session_id)} :
          pc' = e.pc /\ resp' = e.resp /\ ret' = outcome
    /\ cur' = NoCur
    /\ UNCHANGED <<combined_df, session_movies, req, nuuid, arg, threadVars>>

Completion ==
    \/ \E content \in Contents : CompletionReturns(content)
    \/ \E message \in CallErrors : CompletionRaises(message)

Init == RegistryInit /\ ServerInit /\ ThreadsInit /\ PureInit

Next ==
    \/ \E q \in Questions, h \in Headers : ask_movie_question(q, h)
    \/ \E h \in Headers : get_movie_hint(h)
    \/ \E content \in Contents : CompletionReturns(content)
    \/ \E message \in CallErrors : CompletionRaises(message)

Spec == Init /\ [][Next]_vars

\* The external call ends: the client the code builds at infer.py:139 keeps
\* its library's finite request timeout, the code passing none of its own.
SpecLive == Spec /\ WF_vars(Completion)

----------------------------------------------------------------------------
(* get_or_create_movie called from several threads at once, one statement   *)
(* at a time.  infer.py takes no lock around lines 81-84, and nothing in   *)
(* it keeps a caller to one thread.                                        *)

ThreadIds == ClientIds \cup {Uuid(1)}

\* A thread enters get_or_create_movie(session_id).
ThreadCall(t, session_id) ==
    /\ tpc[t] = "idle"
    /\ tpc' = [tpc EXCEPT ![t] = "test"]
    /\ tsid' = [tsid EXCEPT ![t] = session_id]
    /\ UNCHANGED <<tsel, tret, combined_df, session_movies, serverVars,
                   pureVars>>

\* line 81: if session_id not in session_movies
ThreadTest(t) ==
    /\ tpc[t] = "test"
    /\ tpc' = [tpc EXCEPT ![t] = IF tsid[t] \notin DOMAIN session_movies
                                 THEN "draw" ELSE "read"]
    /\ UNCHANGED <<tsid, tsel, tret, combined_df, session_movies, serverVars,
                   pureVars>>

\* line 82: selected_df = combined_df.sample(n=1)
ThreadDraw(t, i) ==
    /\ tpc[t] = "draw"
    /\ tsel' = [tsel EXCEPT ![t] = i]
    /\ tpc' = [tpc EXCEPT ![t] = "store"]
    /\ UNCHANGED <<tsid, tret, combined_df, session_movies, serverVars,
                   pureVars>>

\* line 83: session_movies[session_id] = selected_df.to_dicts()[0]
ThreadStore(t) ==
    /\ tpc[t] = "store"
    /\ session_movies' = Bind(session_movies, tsid[t], combined_df[tsel[t]])
    /\ tpc' = [tpc EXCEPT ![t] = "read"]
    /\ UNCHANGED <<tsid, tsel, tret, combined_df, serverVars, pureVars>>

\* line 84: return session_movies[session_id]
ThreadRead(t) ==
    /\ tpc[t] = "read"
    /\ tret' = [tret EXCEPT ![t] = Ok(session_movies[tsid[t]])]
    /\ tpc' = [tpc EXCEPT ![t] = "done"]
    /\ UNCHANGED <<tsid, tsel, combined_df, session_movies, serverVars,
                   pureVars>>

NextThreads ==
    \/ \E t \in Threads, s \in ThreadIds : ThreadCall(t, s)
    \/ \E t \in Threads : ThreadTest(t)
    \/ \E t \in Threads, i \in 1..Len(combined_df) : ThreadDraw(t, i)
    \/ \E t \in Threads : ThreadStore(t)
    \/ \E t \in Threads : ThreadRead(t)

SpecThreads == Init /\ [][NextThreads]_vars

----------------------------------------------------------------------------
(* The claims.                                                              *)

Calls == {"ask_call", "hint_call"}
S1 == <<"s", "1">>

\* Every character of q is whitespace.
Blank(q) == \A i \in 1..Len(q) : q[i] \in Whitespace

EqIgnoreCase(a, b) ==
    Len(a) = Len(b) /\ \A i \in 1..Len(a) : LowerChar(a[i]) = LowerChar(b[i])

\* C1: once session_movies[s] is set its value never changes, and a call of
\* get_or_create_movie(s) for an id bound earlier returns that binding.
C1_SessionStable ==
    /\ [][\A s \in DOMAIN session_movies :
            s \in DOMAIN session_movies'
            /\ session_movies'[s] = session_movies[s]]_vars
    /\ [][(pc = "idle" /\ pc' \in Calls
           /\ cur'.session_id \in DOMAIN session_movies)
          => cur'.movie = session_movies[cur'.session_id]]_vars

\* A request that carries the id an earlier response handed out is in its
\* external call.
C1_Witness ==
    /\ pc \in Calls
    /\ nuuid = 1
    /\ req.header = PyStr(Uuid(1))
    /\ cur.session_id = Uuid(1)

\* C2: two threads that called get_or_create_movie with the same id and
\* returned hold the same record, and it is the one bound to the id.
C2_OneBindingUnderRace ==
    \A t1, t2 \in Threads :
        (tpc[t1] = "done" /\ tpc[t2] = "done" /\ tsid[t1] = tsid[t2])
        => /\ tret[t1] = tret[t2]
           /\ tret[t1].val = session_movies[tsid[t1]]

\* C3: for a record with a title and any other fields absent, null or
\* malformed, build_facts_and_instruction does not raise and its fact block
\* has exactly 9 labeled lines, with "N/A" where the data is absent.
C3_Labels ==
    <<L_Overview, L_Release, L_Genres, L_Cast, L_Directors, L_Runtime,
      L_Rating, L_Popularity, L_Language>>

C3_FactSheetTotal ==
    ret # NotCalled =>
        /\ ~ret.raised
        /\ LET lines == SplitLines(ret.val.facts_block)
               na(field, i) ==
                   MovieGet(arg, field) = None
                   => lines[i] = C3_Labels[i] \o NA
           IN /\ Len(lines) = 9
              /\ \A i \in 1..9 : StartsWith(lines[i], C3_Labels[i])
              /\ na("overview", 1) /\ na("release_date", 2)
              /\ na("genres", 3) /\ na("cast", 4) /\ na("crew", 5)
              /\ na("runtime", 6) /\ na("popularity", 8)
              /\ na("language", 9)
              /\ (MovieGet(arg, "vote_average") = None
                  /\ MovieGet(arg, "vote_count") = None)
                 => lines[7] = L_Rating \o NA \o L_Votes \o NA \o <<")">>

\* C4: a POST /ask whose question is empty or whitespace-only is answered
\* with status 400, binds or rebinds no session and enters no external
\* call, whatever the X-Session-ID header.
C4_EmptyQuestionRejected ==
    [][(pc = "idle" /\ req'.kind = "ask" /\ Blank(req'.question))
       => /\ resp'.status = 400
          /\ session_movies' = session_movies
          /\ pc' = "idle"
          /\ cur' = cur]_vars

\* A whitespace-only question that came with a header naming an unbound
\* session was rejected while other sessions exist.
C4_Witness ==
    /\ resp.status = 400
    /\ req.question # <<>>
    /\ req.header = PyStr(S1)
    /\ S1 \notin DOMAIN session_movies
    /\ session_movies # NoSessions

\* C5: a handled /ask with a non-empty question, or /hint, has exactly one
\* outcome: status 200 with the answer or hint and the session id, or status
\* 500 whose detail is the message of the failure raised in the core; after
\* either the event loop is free for the next request.
C5_OneOutcome ==
    /\ resp # NoResp => pc = "idle"
    /\ (pc = "idle" /\ req.kind # "none"
        /\ ~(req.kind = "ask" /\ Blank(req.question)))
       => /\ ret # NotCalled
          /\ IF ret.raised
             THEN resp = [status |-> 500, detail |-> ret.exc]
             ELSE /\ resp.status = 200
                  /\ DOMAIN resp = IF req.kind = "ask"
                                   THEN {"status", "answer", "game_over",
                                         "session_id"}
                                   ELSE {"status", "hint", "session_id"}
                  /\ ret.val = IF req.kind = "ask" THEN resp.answer
                               ELSE resp.hint
                  /\ resp.session_id \in DOMAIN session_movies
                  /\ Truthy(req.header) => resp.session_id = req.header.s

\* The external call failed and the caller got a 500 with its message.
C5_Witness ==
    /\ pc = "idle"
    /\ req.kind = "hint"
    /\ ret = Raise("Connection error.")
    /\ resp.status = 500

\* C6: in a successful /ask response game_over is true exactly when the
\* answer, case ignored, starts with "yes" and contains "correct".
C6_GameOverIff ==
    (resp.status = 200 /\ "answer" \in DOMAIN resp)
    => (resp.game_over
        <=> /\ Len(resp.answer) >= 3
            /\ EqIgnoreCase(SubSeq(resp.answer, 1, 3), <<"y", "e", "s">>)
            /\ \E i \in 1..Len(resp.answer) :
                 /\ i + 6 <= Len(resp.answer)
                 /\ EqIgnoreCase(SubSeq(resp.answer, i, i + 6),
                                 <<"c", "o", "r", "r", "e", "c", "t">>))

\* An upper-case correct-guess answer ended the game.
C6_Witness ==
    /\ resp.status = 200
    /\ "answer" \in DOMAIN resp
    /\ resp.answer = A_Shout
    /\ resp.game_over

\* C7: _safe_load_json never raises; None and a string that is not valid
\* JSON give the empty list; a list or dict comes back as it is.
C7_SafeLoadTotal ==
    ret # NotCalled =>
        /\ ~ret.raised
        /\ arg = None => ret.val = PyList(<<>>)
        /\ (arg.t = "str" /\ json_loads(arg).raised) => ret.val = PyList(<<>>)
        /\ arg.t \in {"list", "dict"} => ret.val = arg

\* A plain genre string, which is no JSON, was decoded.
C7_Witness ==
    /\ ret # NotCalled
    /\ arg = PyStr(PlainGenres)
    /\ json_loads(arg).raised

C9_Frame ==
    [][/\ combined_df' = combined_df
       /\ DOMAIN session_movies \subseteq DOMAIN session_movies'
       /\ \A s \in DOMAIN session_movies' \ DOMAIN session_movies :
            pc' \in Calls /\ s = cur'.session_id
       /\ \A s \in DOMAIN session_movies :
            (pc' \in Calls /\ s = cur'.session_id)
            \/ session_movies'[s] = session_movies[s]]_vars

\* A new session was bound while another one existed.
C9_Witness ==
    /\ pc \in Calls
    /\ Cardinality(DOMAIN session_movies) = 2
    /\ req.header = None

\* C10: while a request is in the external call its session is bound to
\* the record it drew; a failure of the call leaves that binding in place;
\* the next request with the id gets the same record.
C10_BoundBeforeCall ==
    pc \in Calls
    => /\ cur.session_id \in DOMAIN session_movies
       /\ session_movies[cur.session_id] = cur.movie

C10_BindingSurvivesFailure ==
    /\ []C10_BoundBeforeCall
    /\ [][(pc \in Calls /\ resp'.status = 500)
          => /\ cur.session_id \in DOMAIN session_movies'
             /\ session_movies'[cur.session_id] = cur.movie]_vars
    /\ [][(pc = "idle" /\ resp.status = 500 /\ pc' \in Calls
           /\ cur'.session_id \in DOMAIN session_movies)
          => cur'.movie = session_movies[cur'.session_id]]_vars

\* A request without a header drew a fresh id, its external call failed,
\* and the fresh id is still bound.
C10_Witness ==
    /\ pc = "idle"
    /\ resp.status = 500
    /\ req.header = None
    /\ ret.raised /\ ret.exc \in CallErrors
    /\ Uuid(nuuid) \in DOMAIN session_movies

====
